---------------------------- MODULE Spec2Model ----------------------------
(***************************************************************************)
(* usvfs-rs: the Rust binding (src/src/lib.rs) of the usvfs virtual file   *)
(* system engine.  The binding is modelled from its source: the Parameters *)
(* setters, the widen!/widen_mut! string marshalling and every wrapper     *)
(* that forwards to an extern "C" entry point.  The engine behind those    *)
(* entry points (library usvfs_x64, linked by src/build.rs) is declared in *)
(* lib.rs but its code is not part of the sources; its behaviour is        *)
(* modelled from the specification (sections 3, 4, 6 and 7) and every such *)
(* definition is named Engine_...                                          *)
(*                                                                         *)
(* Strings are sequences of Unicode code points (a Rust &str), UTF-16      *)
(* buffers are sequences of 16-bit code units.                             *)
(***************************************************************************)
EXTENDS Integers, Sequences, FiniteSets, TLC

VARIABLES
    params,        \* the usvfsParameters object behind *mut Parameters
    panicked,      \* TRUE once an expect() has panicked
    sessionState,  \* SessionState lifecycle label of the controlling process
    connected,     \* instance names of the sessions currently attached
    store,         \* the Mapping Store shared by the VFS instance
    registry,      \* the Skip/Blacklist Registry
    procs,         \* ProcessHandles of the processes spawned by the controller
    logQueue,      \* number of messages waiting in the Logging Channel
    probe,         \* size reported by the latest create_vfs_dump, while still valid
    last           \* record of the latest wrapper call (what the caller observed)

vars == <<params, panicked, sessionState, connected, store, registry, procs,
          logQueue, probe, last>>

None == "none"

--------------------------------------------------------------------------
(* Text: code points, UTF-16 code units, paths.                            *)

\* char::encode_utf16 for one code point: one unit in the BMP, else a
\* surrogate pair.
EncodeChar(cp) ==
    IF cp < 65536
    THEN <<cp>>
    ELSE <<55296 + ((cp - 65536) \div 1024), 56320 + ((cp - 65536) % 1024)>>

\* str::encode_utf16().collect::<Vec<u16>>()
RECURSIVE encode_utf16(_)
encode_utf16(s) ==
    IF s = <<>> THEN <<>> ELSE EncodeChar(Head(s)) \o encode_utf16(Tail(s))

\* The units a reader of a null-terminated wide string sees: those before
\* the first 0 unit.
RECURSIVE UntilNul(_)
UntilNul(u) ==
    IF u = <<>> \/ Head(u) = 0 THEN <<>> ELSE <<Head(u)>> \o UntilNul(Tail(u))

\* UTF-16 decoding of well-formed units (the engine's view of the text).
RECURSIVE decode_utf16(_)
decode_utf16(u) ==
    IF u = <<>> THEN <<>>
    ELSE IF Len(u) >= 2 /\ Head(u) >= 55296 /\ Head(u) < 56320
              /\ u[2] >= 56320 /\ u[2] < 57344
         THEN <<65536 + (Head(u) - 55296) * 1024 + (u[2] - 56320)>>
                  \o decode_utf16(Tail(Tail(u)))
         ELSE <<Head(u)>> \o decode_utf16(Tail(u))


\* The UTF-8 bytes of one code point (the bytes of a Rust &str).
EncodeUtf8Char(cp) ==
    IF cp < 128 THEN <<cp>>
    ELSE IF cp < 2048 THEN <<192 + (cp \div 64), 128 + (cp % 64)>>
    ELSE IF cp < 65536
         THEN <<224 + (cp \div 4096), 128 + ((cp \div 64) % 64), 128 + (cp % 64)>>
         ELSE <<240 + (cp \div 262144), 128 + ((cp \div 4096) % 64),
                128 + ((cp \div 64) % 64), 128 + (cp % 64)>>

RECURSIVE as_bytes(_)
as_bytes(s) ==
    IF s = <<>> THEN <<>> ELSE EncodeUtf8Char(Head(s)) \o as_bytes(Tail(s))

Contains(seq, x) == \E i \in 1..Len(seq) : seq[i] = x

\* CString::new(bytes): Err(NulError) when the bytes hold an interior 0,
\* else the bytes (the terminator is appended by CString itself).
CString_new(s) ==
    IF Contains(as_bytes(s), 0)
    THEN [ok |-> FALSE, bytes |-> <<>>]
    ELSE [ok |-> TRUE, bytes |-> as_bytes(s)]

--------------------------------------------------------------------------
(* widen! / widen_mut!: a pointer into a Vec<u16> local to the macro's     *)
(* block.  The Vec is dropped when the block ends, so the pointer the      *)
(* macro evaluates to refers to a buffer that is no longer allocated.      *)

widen(str) ==
    [units |-> encode_utf16(str) \o <<0>>, allocated |-> FALSE]

widen_mut(str) ==
    [units |-> encode_utf16(str) \o <<0>>, allocated |-> FALSE]

\* What a freed block may hold when it is read: nothing of the string (the
\* allocator's own bookkeeping; here a block that starts with a 0 unit).
FreedUnits == <<0>>

\* The units a reader may find behind pointer p.  An allocated buffer holds
\* what was written.  A freed one may still hold it, may have been handed to
\* one of the buffers allocated after it (`later`), or may hold FreedUnits.
Deref(p, later) ==
    IF p.allocated
    THEN {p.units}
    ELSE {p.units} \cup {q.units : q \in later} \cup {FreedUnits}

\* The text a reader of a null-terminated UTF-16 string obtains from units.
WideText(units) == decode_utf16(UntilNul(units))

--------------------------------------------------------------------------
(* Parameters: the opaque usvfsParameters object and its setters.          *)

LogLevels == {"Debug", "Info", "Warning", "Error"}
CrashDumpsTypes == {"Nil", "Mini", "Data", "Full"}

\* Durations exceed the model checker's integers, so a u64/u128 quantity is
\* kept as two limbs: value = hi * 2^16 + lo, 0 <= lo < 2^16.
Limb == 2^16
Wide(n) == [hi |-> n \div Limb, lo |-> n % Limb]
WideMul(b, k) == [hi |-> b.hi * k + ((b.lo * k) \div Limb), lo |-> (b.lo * k) % Limb]
WideAdd(b, k) == [hi |-> b.hi + ((b.lo + k) \div Limb), lo |-> (b.lo + k) % Limb]

\* time::Duration::as_millis(): secs * 1000 + nanos / 1_000_000, as u128.
as_millis(d) == WideAdd(WideMul(d.secs, 1000), d.nanos \div 1000000)

\* u128 -> c_int (signed 32-bit) via TryInto: Err when the value exceeds
\* c_int::MAX = 2^31 - 1, i.e. when hi >= 2^15.
try_into_c_int(n) ==
    IF n.hi < 2^15
    THEN [ok |-> TRUE, val |-> n.hi * Limb + n.lo]
    ELSE [ok |-> FALSE, val |-> 0]

\* usvfsCreateParameters(): a fresh object with the engine's defaults.
NewParameters ==
    [instanceName |-> <<>>, debugMode |-> FALSE, logLevel |-> "Debug",
     crashDumpsType |-> "Nil", crashDumpsPath |-> <<>>, processDelay |-> 0]

NullParams == [null |-> TRUE]

\* Inputs of the setters.
Str_test == <<116, 101, 115, 116>>            \* "test"
Str_nul == <<97, 0, 98>>                      \* "a\0b": interior NUL
Str_dumps == <<100, 233>>                     \* "d\u{e9}": non-ASCII path
NameInputs == {Str_test, Str_nul}
PathInputs == {<<>>, Str_dumps, Str_nul}
DelayInputs ==
    { [secs |-> Wide(1), nanos |-> 0],                \* 1000 ms (test parameters)
      [secs |-> Wide(0), nanos |-> 5000000],          \* 5 ms
      [secs |-> Wide(2147483), nanos |-> 647000000],  \* c_int::MAX ms
      [secs |-> Wide(2147483), nanos |-> 648000000],  \* c_int::MAX + 1 ms
      [secs |-> [hi |-> 2^16, lo |-> 0], nanos |-> 0] }  \* 2^32 s

\* What the parameter operations leave alone.
EngineUnchanged ==
    UNCHANGED <<sessionState, connected, store, registry, procs, logQueue, probe>>

Called(op, ret) == [op |-> op, ret |-> ret]

Parameters_new ==
    /\ ~panicked
    /\ params = NullParams
    /\ params' = NewParameters
    /\ last' = Called("Parameters::new", "Unit")
    /\ UNCHANGED panicked
    /\ EngineUnchanged

set_instance_name ==
    /\ ~panicked
    /\ params # NullParams
    /\ \E name \in NameInputs :
         LET cName == CString_new(name) IN
         IF cName.ok
         THEN /\ params' = [params EXCEPT !.instanceName = cName.bytes]
              /\ last' = Called("set_instance_name", "Unit")
              /\ UNCHANGED panicked
         ELSE /\ panicked' = TRUE            \* expect("Invalid C-String")
              /\ last' = Called("set_instance_name", "Panic")
              /\ UNCHANGED params
    /\ EngineUnchanged

set_debug_mode ==
    /\ ~panicked
    /\ params # NullParams
    /\ \E debug_mode \in BOOLEAN :
         params' = [params EXCEPT !.debugMode = debug_mode]
    /\ last' = Called("set_debug_mode", "Unit")
    /\ UNCHANGED panicked
    /\ EngineUnchanged

set_log_level ==
    /\ ~panicked
    /\ params # NullParams
    /\ \E log_level \in LogLevels :
         params' = [params EXCEPT !.logLevel = log_level]
    /\ last' = Called("set_log_level", "Unit")
    /\ UNCHANGED panicked
    /\ EngineUnchanged

set_crash_dumps_type ==
    /\ ~panicked
    /\ params # NullParams
    /\ \E dump_type \in CrashDumpsTypes :
         params' = [params EXCEPT !.crashDumpsType = dump_type]
    /\ last' = Called("set_crash_dumps_type", "Unit")
    /\ UNCHANGED panicked
    /\ EngineUnchanged

set_crash_dumps_path ==
    /\ ~panicked
    /\ params # NullParams
    /\ \E path \in PathInputs :
         LET cPath == CString_new(path) IN
         IF cPath.ok
         THEN /\ params' = [params EXCEPT !.crashDumpsPath = cPath.bytes]
              /\ last' = Called("set_crash_dumps_path", "Unit")
              /\ UNCHANGED panicked
         ELSE /\ panicked' = TRUE            \* expect("Invalid C-String")
              /\ last' = Called("set_crash_dumps_path", "Panic")
              /\ UNCHANGED params
    /\ EngineUnchanged

set_process_delay ==
    /\ ~panicked
    /\ params # NullParams
    /\ \E time \in DelayInputs :
         LET ms == try_into_c_int(as_millis(time)) IN
         IF ms.ok
         THEN /\ params' = [params EXCEPT !.processDelay = ms.val]
              /\ last' = Called("set_process_delay", "Unit")
              /\ UNCHANGED panicked
         ELSE /\ panicked' = TRUE   \* expect("Failed to convert time to milliseconds")
              /\ last' = Called("set_process_delay", "Panic")
              /\ UNCHANGED params
    /\ EngineUnchanged

free_parameters ==
    /\ ~panicked
    /\ params # NullParams
    /\ sessionState \notin {"Created", "Connected"}  \* "only free parameters after
                                                     \*  closing any associated VFSs"
    /\ params' = NullParams
    /\ last' = Called("free_parameters", "Unit")
    /\ UNCHANGED panicked
    /\ EngineUnchanged

--------------------------------------------------------------------------
(* Link flags (bit-field, combinable).                                     *)

\* The binding's constants, as callers combine them.
LINKFLAG_MONITORCHANGES == 2
\* A variant binding whose FAILIFEXISTS constant carries the neighbouring bit.
LINKFLAG_FAILIFEXISTS_neighbour == LINKFLAG_MONITORCHANGES
LINKFLAG_FAILIFEXISTS == 1
LINKFLAG_CREATETARGET == 4
LINKFLAG_RECURSIVE == 8
LINKFLAG_FAILIFSKIPPED == 16

\* The bits as the engine reads them (section 6).
EngineFlags ==
    [failIfExists |-> 1, monitorChanges |-> 2, createTarget |-> 4,
     recursive |-> 8, failIfSkipped |-> 16]

HasFlag(flags, f) == (flags \div f) % 2 = 1

--------------------------------------------------------------------------
(* The engine's Mapping Store and Link Resolver.                           *)

\* Case folding of one code point (ASCII), for case-insensitive segments.
Fold(cp) == IF cp >= 97 /\ cp <= 122 THEN cp - 32 ELSE cp

\* VirtualPath: the normalized sequence of segments of a text; separators
\* are '/' (47), empty segments and a trailing separator are dropped.
RECURSIVE SplitPath(_, _, _)
SplitPath(text, cur, acc) ==
    IF text = <<>>
    THEN IF cur = <<>> THEN acc ELSE Append(acc, cur)
    ELSE IF Head(text) = 47
         THEN SplitPath(Tail(text), <<>>, IF cur = <<>> THEN acc ELSE Append(acc, cur))
         ELSE SplitPath(Tail(text), Append(cur, Fold(Head(text))), acc)

VirtualPath(text) == SplitPath(text, <<>>, <<>>)

\* The virtual path of entry `name` below virtual path p.
ChildPath(p, name) == Append(p, [i \in 1..Len(name) |-> Fold(name[i])])

\* The real path of entry `name` below real directory d ('\' is 92).
RealChild(d, name) == d \o <<92>> \o name

\* The proper, non-root ancestors of p, and p itself.
Prefixes(p) == {SubSeq(p, 1, k) : k \in 1..Len(p)}

IsPrefix(a, p) == Len(a) <= Len(p) /\ SubSeq(p, 1, Len(a)) = a

\* order counts the link operations applied since the last reset (the
\* creation order of the LinkRecords).
EmptyStore == [nodes |-> {}, redirects |-> {}, createTargets |-> {}, order |-> 0]

\* A source or destination text the engine cannot use as a path.
Malformed(text) == text = <<>>

\* Destination-side directories that exist on disk.
PhysicalDirs == {<<<<80>>>>}                   \* "/P"

AncestorExists(st, dest) ==
    \/ Len(dest) <= 1
    \/ SubSeq(dest, 1, Len(dest) - 1) \in st.nodes \cup PhysicalDirs

RedirectsAt(st, p) == {r \in st.redirects : r.at = p}
CreateTargetsAt(st, p) == {c \in st.createTargets : c.at = p}

\* insertLink(source, destination, flags, isDirectory) of section 4.1.
Engine_insertLink(st, source, dest, flags, isDirectory) ==
    IF HasFlag(flags, EngineFlags.failIfExists) /\ RedirectsAt(st, dest) # {}
    THEN [ok |-> FALSE, err |-> "AlreadyLinked", store |-> st]
    ELSE IF HasFlag(flags, EngineFlags.failIfExists) /\ ~AncestorExists(st, dest)
    THEN [ok |-> FALSE, err |-> "DestinationMissingVirtualAncestor", store |-> st]
    ELSE [ok |-> TRUE, err |-> None,
          store |->
            [order |-> st.order,
             nodes |-> st.nodes \cup Prefixes(dest),
             redirects |->
                (st.redirects \ RedirectsAt(st, dest))
                    \cup {[at |-> dest, target |-> source, dir |-> isDirectory]},
             createTargets |->
                (st.createTargets \ CreateTargetsAt(st, dest))
                    \cup (IF isDirectory /\ HasFlag(flags, EngineFlags.createTarget)
                          THEN {[at |-> dest, target |-> source]}
                          ELSE {})]]

\* resolve(path) of section 4.2: walk from the root along the existing
\* nodes; remember the deepest redirect and the deepest create-target met.
RECURSIVE ResolveWalk(_, _, _, _, _)
ResolveWalk(st, path, k, redir, ct) ==
    LET here == SubSeq(path, 1, k)
        r == RedirectsAt(st, here)
        c == CreateTargetsAt(st, here)
        redir2 == IF r # {} THEN [at |-> k, target |-> (CHOOSE x \in r : TRUE).target]
                  ELSE redir
        ct2 == IF c # {} THEN [at |-> k, target |-> (CHOOSE x \in c : TRUE).target]
               ELSE ct
    IN  IF k < Len(path) /\ SubSeq(path, 1, k + 1) \in st.nodes
        THEN ResolveWalk(st, path, k + 1, redir2, ct2)
        ELSE [redirect |-> redir2, createTarget |-> ct2]

\* The text of the segments k+1.. of path, each behind a '\'.
RECURSIVE Suffix(_, _)
Suffix(path, k) ==
    IF k >= Len(path) THEN <<>> ELSE <<92>> \o path[k + 1] \o Suffix(path, k + 1)

NoTarget == [at |-> -1, target |-> <<>>]

Engine_resolve(st, path) ==
    LET w == ResolveWalk(st, path, 0, NoTarget, NoTarget)
    IN  [real |-> IF w.redirect.at < 0 THEN Suffix(path, 0)
                  ELSE w.redirect.target \o Suffix(path, w.redirect.at),
         redirected |-> w.redirect.at >= 0,
         hasCreateTarget |-> w.createTarget.at >= 0,
         createTarget |-> w.createTarget.target]

--------------------------------------------------------------------------
(* The source side: real directories on disk, and static directory links.  *)

Str_R1 == <<82, 49>>                          \* "R1", a real directory
Str_R2 == <<82, 50>>                          \* "R2", a real directory
Str_git == <<46, 103, 105, 116>>              \* ".git"
Str_src == <<115, 114, 99>>                   \* "src"
Str_config == <<99, 111, 110, 102, 105, 103>> \* "config"
Str_f == <<102, 46, 116>>                     \* "f.t"
Str_m == <<109, 46, 100>>                     \* "m.d"

File(name) == [name |-> name, dir |-> FALSE]
Dir(name) == [name |-> name, dir |-> TRUE]

\* The entries of the real directory d; a path that is no directory has none.
\*   R1: f.t  .git/config  src/.git/config  src/m.d
\*   R2: f.t
DirEntries(d) ==
    IF d = Str_R1 THEN {File(Str_f), Dir(Str_git), Dir(Str_src)}
    ELSE IF d = RealChild(Str_R1, Str_git) THEN {File(Str_config)}
    ELSE IF d = RealChild(Str_R1, Str_src) THEN {Dir(Str_git), File(Str_m)}
    ELSE IF d = RealChild(RealChild(Str_R1, Str_src), Str_git) THEN {File(Str_config)}
    ELSE IF d = Str_R2 THEN {File(Str_f)}
    ELSE {}

\* Lexicographic order on names.
RECURSIVE SeqLess(_, _)
SeqLess(a, b) ==
    IF b = <<>> THEN FALSE
    ELSE IF a = <<>> THEN TRUE
    ELSE IF Head(a) # Head(b) THEN Head(a) < Head(b)
    ELSE SeqLess(Tail(a), Tail(b))

FirstEntry(entries) ==
    CHOOSE e \in entries : \A o \in entries \ {e} : SeqLess(e.name, o.name)

EndsWith(name, suffix) ==
    /\ Len(suffix) <= Len(name)
    /\ SubSeq(name, Len(name) - Len(suffix) + 1, Len(name)) = suffix

EmptyRegistry ==
    [skipDirs |-> {}, skipSuffixes |-> {}, blacklist |-> {}, forceLoads |-> {}]

\* SkipRule matching of section 3: a bare directory name, or a file suffix.
IsSkipped(reg, e) ==
    IF e.dir THEN e.name \in reg.skipDirs
    ELSE \E s \in reg.skipSuffixes : EndsWith(e.name, s)

\* Static directory link of sections 4.1 and 4.2: the directory itself is
\* linked; with RECURSIVE its entries are walked in lexicographic order,
\* files linked individually, directories linked the same way, entries
\* matching a SkipRule omitted or, with FAILIFSKIPPED, rejected.
RECURSIVE Engine_linkDirectory(_, _, _, _, _), Engine_linkEntries(_, _, _, _, _, _)
Engine_linkDirectory(st, reg, source, dest, flags) ==
    LET top == IF Malformed(source) \/ dest = <<>>
               THEN [ok |-> FALSE, err |-> "MalformedPath", store |-> st]
               ELSE Engine_insertLink(st, source, dest, flags, TRUE)
    IN  IF ~top.ok THEN top
        ELSE IF ~HasFlag(flags, EngineFlags.recursive) THEN top
        ELSE Engine_linkEntries(top.store, reg, DirEntries(source), source, dest, flags)

Engine_linkEntries(st, reg, entries, source, dest, flags) ==
    IF entries = {} THEN [ok |-> TRUE, err |-> None, store |-> st]
    ELSE
      LET e == FirstEntry(entries)
          one ==
            IF IsSkipped(reg, e)
            THEN IF HasFlag(flags, EngineFlags.failIfSkipped)
                 THEN [ok |-> FALSE, err |-> "SkippedEntryRejected", store |-> st]
                 ELSE [ok |-> TRUE, err |-> None, store |-> st]
            ELSE IF e.dir
                 THEN Engine_linkDirectory(st, reg, RealChild(source, e.name),
                                           ChildPath(dest, e.name), flags)
                 ELSE Engine_insertLink(st, RealChild(source, e.name),
                                        ChildPath(dest, e.name), flags, FALSE)
      IN  IF ~one.ok THEN one
          ELSE Engine_linkEntries(one.store, reg, entries \ {e}, source, dest, flags)

\* Link of one file: a file matching a skip suffix is omitted or rejected.
Engine_linkFile(st, reg, source, dest, flags) ==
    IF Malformed(source) \/ dest = <<>>
    THEN [ok |-> FALSE, err |-> "MalformedPath", store |-> st]
    ELSE IF \E s \in reg.skipSuffixes : EndsWith(source, s)
    THEN IF HasFlag(flags, EngineFlags.failIfSkipped)
         THEN [ok |-> FALSE, err |-> "SkippedEntryRejected", store |-> st]
         ELSE [ok |-> TRUE, err |-> None, store |-> st]
    ELSE Engine_insertLink(st, source, dest, flags, FALSE)

--------------------------------------------------------------------------
(* The engine's VFS Session (section 4.3).                                 *)

Attached == connected # <<>>

\* disconnect(): detaches whatever is attached; the Mapping Store stays.
Engine_disconnect(sess) ==
    [state |-> IF sess.state = "Connected" THEN "Disconnected" ELSE sess.state,
     connected |-> <<>>]

\* connect(config): the prior session is disconnected first; then the
\* controller attaches, unless the attempt fails at the engine boundary.
Engine_connect(sess, name, ok) ==
    LET d == Engine_disconnect(sess)
    IN  IF ok
        THEN [state |-> "Connected", connected |-> Append(d.connected, name)]
        ELSE [state |-> "Uninitialized", connected |-> d.connected]

\* create(config): disconnect, reset the Mapping Store (Created), activate
\* (Connected).  The boundary failure may come before or after the reset.
CreateOutcomes == {"ok", "fail_before_reset", "fail_after_reset"}

Engine_create(sess, st, name, outcome) ==
    LET d == Engine_disconnect(sess)
    IN  IF outcome = "fail_before_reset"
        THEN [ok |-> FALSE, sess |-> [d EXCEPT !.state = "Uninitialized"],
              store |-> st, passed |-> <<>>]
        ELSE IF outcome = "fail_after_reset"
        THEN [ok |-> FALSE, sess |-> [d EXCEPT !.state = "Uninitialized"],
              store |-> EmptyStore, passed |-> <<"Created">>]
        ELSE [ok |-> TRUE,
              sess |-> Engine_connect([d EXCEPT !.state = "Created"], name, TRUE),
              store |-> EmptyStore, passed |-> <<"Created", "Connected">>]

\* clear() of section 4.1, through the attached session.
Engine_clearVirtualMappings(st, attached) == IF attached THEN EmptyStore ELSE st

--------------------------------------------------------------------------
(* The binding's wrappers: session.                                        *)

\* A variant binding whose match arms are exchanged.
match_bool_exchanged(b) == IF b THEN "Err" ELSE "Ok"

\* A variant binding that drops the engine's result and answers Ok.
match_bool_dropped(b) == "Ok"

\* `match <engine call> { true => Ok(()), false => Err(()) }`
match_bool(b) == IF b THEN "Ok" ELSE "Err"

Sess == [state |-> sessionState, connected |-> connected]

\* A dump size reported earlier stays valid while the mappings and the
\* attached session stay as they were.
NoProbe == [size |-> -1, cap |-> -1]

ProbeAfter(st, conn) == IF st = store /\ conn = connected THEN probe ELSE NoProbe

SessionFrame == UNCHANGED <<params, panicked, registry, procs, logQueue>>

\* What the call found: the sessions attached, and whether links were held.
Before == [connected |-> connected, mapped |-> store.redirects # {}]

\* A variant binding whose create_vfs reaches usvfsConnectVFS instead.
create_vfs_connects ==
    /\ ~panicked
    /\ params # NullParams
    /\ \E ok \in BOOLEAN :
         LET s == Engine_connect(Sess, params.instanceName, ok) IN
         /\ sessionState' = s.state
         /\ connected' = s.connected
         /\ probe' = NoProbe
         /\ last' = [op |-> "create_vfs", ret |-> match_bool(ok),
                     engineRet |-> ok, before |-> Before,
                     passed |-> IF ok THEN <<"Connected">> ELSE <<>>]
    /\ UNCHANGED store
    /\ SessionFrame

create_vfs ==
    /\ ~panicked
    /\ params # NullParams
    /\ \E outcome \in CreateOutcomes :
         LET e == Engine_create(Sess, store, params.instanceName, outcome) IN
         /\ sessionState' = e.sess.state
         /\ connected' = e.sess.connected
         /\ store' = e.store
         /\ probe' = NoProbe
         /\ last' = [op |-> "create_vfs", ret |-> match_bool(e.ok),
                     engineRet |-> e.ok, before |-> Before,
                     passed |-> e.passed]
    /\ SessionFrame

connect_vfs ==
    /\ ~panicked
    /\ params # NullParams
    /\ \E ok \in BOOLEAN :
         LET s == Engine_connect(Sess, params.instanceName, ok) IN
         /\ sessionState' = s.state
         /\ connected' = s.connected
         /\ probe' = NoProbe
         /\ last' = [op |-> "connect_vfs", ret |-> match_bool(ok),
                     engineRet |-> ok, before |-> Before]
    /\ UNCHANGED store
    /\ SessionFrame

\* A variant binding whose disconnect_vfs reports an error when no session
\* is attached.
disconnect_vfs_checked ==
    /\ ~panicked
    /\ LET s == Engine_disconnect(Sess) IN
         /\ sessionState' = s.state
         /\ connected' = s.connected
         /\ probe' = ProbeAfter(store, s.connected)
    /\ last' = [op |-> "disconnect_vfs",
                ret |-> IF Attached THEN "Unit" ELSE "Err",
                again |-> last.op = "disconnect_vfs"]
    /\ UNCHANGED store
    /\ SessionFrame

disconnect_vfs ==
    /\ ~panicked
    /\ LET s == Engine_disconnect(Sess) IN
         /\ sessionState' = s.state
         /\ connected' = s.connected
         /\ probe' = ProbeAfter(store, s.connected)
    /\ last' = [op |-> "disconnect_vfs", ret |-> "Unit",
                again |-> last.op = "disconnect_vfs"]
    /\ UNCHANGED store
    /\ SessionFrame

clear_virtual_mappings ==
    /\ ~panicked
    /\ LET st == Engine_clearVirtualMappings(store, Attached) IN
         /\ store' = st
         /\ probe' = ProbeAfter(st, connected)
    /\ last' = [op |-> "clear_virtual_mappings", ret |-> "Unit"]
    /\ UNCHANGED <<sessionState, connected>>
    /\ SessionFrame

--------------------------------------------------------------------------
(* The binding's wrappers: virtual links and the skip lists.               *)

\* Link operations applied to one store before the model stops adding more.
MaxLinks == 2

Str_A == <<47, 65>>                           \* "/A"
Str_AB == <<47, 65, 47, 66>>                  \* "/A/B"
SourceInputs == {Str_R1, Str_R2}
DestInputs == {Str_A, Str_AB}
FileFlagInputs == {0, LINKFLAG_FAILIFEXISTS, LINKFLAG_FAILIFSKIPPED}
\* Directory links that set create-targets, on two nested folders.
TargetFlagInputs ==
    {LINKFLAG_CREATETARGET, LINKFLAG_CREATETARGET + LINKFLAG_FAILIFEXISTS}
\* Recursive directory links of the tree R1.
RecursiveFlagInputs ==
    {LINKFLAG_RECURSIVE, LINKFLAG_RECURSIVE + LINKFLAG_CREATETARGET,
     LINKFLAG_RECURSIVE + LINKFLAG_FAILIFSKIPPED}
SkipDirInputs == {Str_git}
SkipSuffixInputs == {<<49>>}                  \* "1", the end of "R1"

\* Entries one list of the registry holds before the model stops adding.
MaxRules == 1

\* One string argument as it crosses the boundary: the caller's text, the
\* pointer the macro produced and the units the engine found behind it.
Passed(arg, ptr, units) == [arg |-> arg, ptr |-> ptr, read |-> units]

\* A link without an attached session is a ResourceError (section 7).
NotConnected(st) == [ok |-> FALSE, err |-> "ResourceError", store |-> st]

\* One link operation through the attached session; a link that was applied
\* takes the next place in the creation order.
Engine_link(res, attached, st) ==
    IF ~attached THEN NotConnected(st)
    ELSE IF res.ok THEN [res EXCEPT !.store.order = st.order + 1]
    ELSE res

\* usvfsVirtualLinkFile(source, destination, flags) on the units read.
usvfsVirtualLinkFile(uSrc, uDst, flags) ==
    Engine_link(Engine_linkFile(store, registry, WideText(uSrc),
                                VirtualPath(WideText(uDst)), flags),
                Attached, store)

\* usvfsVirtualLinkDirectoryStatic(source, destination, flags) likewise.
usvfsVirtualLinkDirectoryStatic(uSrc, uDst, flags) ==
    Engine_link(Engine_linkDirectory(store, registry, WideText(uSrc),
                                     VirtualPath(WideText(uDst)), flags),
                Attached, store)

\* The call virtually_link_file makes: (source, destination, flags).
link_file_call(uSrc, uDst, flags) == usvfsVirtualLinkFile(uSrc, uDst, flags)

\* A variant binding that hands the two pointers over in the other order.
link_directory_call_exchanged(uSrc, uDst, flags) ==
    usvfsVirtualLinkDirectoryStatic(uDst, uSrc, flags)

\* A variant binding whose directory wrapper reaches usvfsVirtualLinkFile.
link_directory_call_file(uSrc, uDst, flags) ==
    usvfsVirtualLinkFile(uSrc, uDst, flags)

\* The call virtually_link_directory_static makes.
link_directory_call(uSrc, uDst, flags) ==
    usvfsVirtualLinkDirectoryStatic(uSrc, uDst, flags)

LinkFrame == UNCHANGED <<params, panicked, sessionState, connected, registry,
                         procs, logQueue>>

virtually_link_file ==
    /\ ~panicked
    /\ store.order < MaxLinks
    /\ \E source \in SourceInputs, destination \in DestInputs, flags \in FileFlagInputs :
         LET pSrc == widen(source)
             pDst == widen(destination)
         IN  \E uSrc \in Deref(pSrc, {pDst}), uDst \in Deref(pDst, {}) :
               LET e == link_file_call(uSrc, uDst, flags)
               IN  /\ store' = e.store
                   /\ probe' = ProbeAfter(e.store, connected)
                   /\ last' = [op |-> "virtually_link_file", ret |-> match_bool(e.ok),
                               engineRet |-> e.ok, err |-> e.err, flags |-> flags,
                               strings |-> <<Passed(source, pSrc, uSrc),
                                             Passed(destination, pDst, uDst)>>]
    /\ LinkFrame

virtually_link_directory_static(Sources, Destinations, Flags) ==
    /\ ~panicked
    /\ store.order < MaxLinks
    /\ \E source \in Sources, destination \in Destinations, flags \in Flags :
         LET pSrc == widen(source)
             pDst == widen(destination)
         IN  \E uSrc \in Deref(pSrc, {pDst}), uDst \in Deref(pDst, {}) :
               LET e == link_directory_call(uSrc, uDst, flags)
               IN  /\ store' = e.store
                   /\ probe' = ProbeAfter(e.store, connected)
                   /\ last' = [op |-> "virtually_link_directory_static",
                               ret |-> match_bool(e.ok),
                               engineRet |-> e.ok, err |-> e.err, flags |-> flags,
                               skipDirs |-> registry.skipDirs,
                               strings |-> <<Passed(source, pSrc, uSrc),
                                             Passed(destination, pDst, uDst)>>]
    /\ LinkFrame

RegistryFrame == UNCHANGED <<params, panicked, sessionState, connected, store,
                             procs, logQueue, probe>>

add_skip_file_suffix ==
    /\ ~panicked
    /\ Cardinality(registry.skipSuffixes) < MaxRules
    /\ \E fileSuffix \in SkipSuffixInputs :
         LET p == widen_mut(fileSuffix) IN
         \E u \in Deref(p, {}) :
           /\ registry' = [registry EXCEPT !.skipSuffixes = @ \cup {WideText(u)}]
           /\ last' = [op |-> "add_skip_file_suffix", ret |-> "Unit",
                       strings |-> <<Passed(fileSuffix, p, u)>>]
    /\ RegistryFrame

clear_skip_file_suffixes ==
    /\ ~panicked
    /\ registry' = [registry EXCEPT !.skipSuffixes = {}]
    /\ last' = [op |-> "clear_skip_file_suffixes", ret |-> "Unit"]
    /\ RegistryFrame

add_skip_directory ==
    /\ ~panicked
    /\ Cardinality(registry.skipDirs) < MaxRules
    /\ \E directory \in SkipDirInputs :
         LET p == widen_mut(directory) IN
         \E u \in Deref(p, {}) :
           /\ registry' = [registry EXCEPT !.skipDirs = @ \cup {WideText(u)}]
           /\ last' = [op |-> "add_skip_directory", ret |-> "Unit",
                       strings |-> <<Passed(directory, p, u)>>]
    /\ RegistryFrame

clear_skip_directories ==
    /\ ~panicked
    /\ registry' = [registry EXCEPT !.skipDirs = {}]
    /\ last' = [op |-> "clear_skip_directories", ret |-> "Unit"]
    /\ RegistryFrame

--------------------------------------------------------------------------
(* The binding's wrappers: dump.                                           *)

\* The dump is one line per redirect: the destination, the target and two
\* separators.  Only its length matters to the retrieval protocol.
RECURSIVE TextLen(_)
TextLen(path) == IF path = <<>> THEN 0 ELSE 1 + Len(Head(path)) + TextLen(Tail(path))

RECURSIVE DumpSize(_)
DumpSize(redirects) ==
    IF redirects = {} THEN 0
    ELSE LET r == CHOOSE x \in redirects : TRUE
         IN  TextLen(r.at) + Len(r.target) + 2 + DumpSize(redirects \ {r})

\* dump() at the native boundary (sections 4.3 and 6): *size holds the
\* capacity of the buffer on entry and the size of the dump on return.
Engine_createVFSDump(st, attached, cap) ==
    LET need == DumpSize(st.redirects) IN
    IF ~attached
    THEN [ok |-> FALSE, err |-> "engine-internal", size |-> cap, written |-> 0]
    ELSE IF cap >= need
    THEN [ok |-> TRUE, err |-> None, size |-> need, written |-> need]
    ELSE [ok |-> FALSE, err |-> "buffer-too-small", size |-> need, written |-> cap]

\* The buffer sizes a caller tries: none, and around the size of the dump.
BufferInputs == LET n == DumpSize(store.redirects) IN {0, n - 1, n, n + 1} \cap Nat

DumpFrame == UNCHANGED <<params, panicked, sessionState, connected, store,
                         registry, procs, logQueue>>

\* A variant binding that hands the engine a temporary for the size, as
\* get_log_message does: the caller's size stays what it was.
create_vfs_dump_temporary ==
    /\ ~panicked
    /\ \E len \in BufferInputs :
         LET e == Engine_createVFSDump(store, Attached, len) IN
         /\ probe' = IF Attached THEN [size |-> len, cap |-> len] ELSE NoProbe
         /\ last' = [op |-> "create_vfs_dump", ret |-> match_bool(e.ok),
                     engineRet |-> e.ok, err |-> e.err, probed |-> probe,
                     sizeIn |-> len, sizeOut |-> len, written |-> e.written]
    /\ DumpFrame

\* The caller sets *size to the length of the buffer ("the variable that
\* contains the buffer [size]").  probe is what the caller last read back
\* from *size on the attached session, and the capacity of that call; it is
\* NoProbe once the mappings or the session changed.
create_vfs_dump ==
    /\ ~panicked
    /\ \E len \in BufferInputs :
         \* buffer: &mut [u8] of length len; *size = len on entry
         LET e == Engine_createVFSDump(store, Attached, len) IN
         /\ probe' = IF Attached THEN [size |-> e.size, cap |-> len] ELSE NoProbe
         /\ last' = [op |-> "create_vfs_dump", ret |-> match_bool(e.ok),
                     engineRet |-> e.ok, err |-> e.err, probed |-> probe,
                     sizeIn |-> len, sizeOut |-> e.size, written |-> e.written]
    /\ DumpFrame

--------------------------------------------------------------------------
(* The binding's wrappers: processes, blacklist, forced loads, logging.    *)

\* Processes the controller spawns before the model stops spawning.
MaxProcs == 1

Str_game == <<71>>                            \* "G", an executable
Str_tool == <<84>>                            \* "T", an executable
Str_tool_lc == <<116>>                        \* "t"
Str_cmd == <<71, 32, 45, 118>>                \* "G -v", a command line
Str_cwd == <<67, 58>>                         \* "C:", a working directory
Str_lib == <<76>>                             \* "L", a library path
AppInputs == {Str_game, Str_tool}

FoldText(s) == [i \in 1..Len(s) |-> Fold(s[i])]

\* Blacklisted executables are matched by name, case-insensitively.
Blacklisted(reg, app) == \E b \in reg.blacklist : FoldText(b) = FoldText(app)

\* spawnHooked of section 4.4.  osOk is the outcome of the platform's
\* process creation.
Engine_spawnHooked(reg, app, osOk, attached) ==
    IF ~attached
    THEN [ok |-> FALSE, err |-> "ResourceError", handles |-> <<>>]
    ELSE IF Malformed(app) \/ ~osOk
    THEN [ok |-> FALSE, err |-> "SpawnFailed", handles |-> <<>>]
    ELSE IF Blacklisted(reg, app)
    THEN [ok |-> TRUE, err |-> None,
          handles |-> <<[name |-> app, status |-> "not attached", libs |-> {}]>>]
    ELSE [ok |-> TRUE, err |-> None,
          handles |-> <<[name |-> app, status |-> "attached",
                         libs |-> {f.lib : f \in
                                    {g \in reg.forceLoads :
                                       FoldText(g.proc) = FoldText(app)}}]>>]

\* The engine logs a spawn when logging has been initialised.
Engine_log(q) == IF q.on THEN [q EXCEPT !.n = @ + 1] ELSE q

\* getLogMessage, non-blocking: "no message" on an empty queue.
Engine_getLogMessage(q) ==
    IF q.n > 0 THEN [ok |-> TRUE, queue |-> [q EXCEPT !.n = @ - 1]]
    ELSE [ok |-> FALSE, queue |-> q]

ProcFrame == UNCHANGED <<params, panicked, sessionState, connected, store, probe>>

create_process_hooked ==
    /\ ~panicked
    /\ Len(procs) < MaxProcs
    /\ \E application_name \in AppInputs, osOk \in BOOLEAN :
         LET pApp == widen(application_name)
             pCmd == widen(Str_cmd)
             pDir == widen(Str_cwd)
         IN  \E uApp \in Deref(pApp, {pCmd, pDir}), uCmd \in Deref(pCmd, {pDir}),
                uDir \in Deref(pDir, {}) :
               LET e == Engine_spawnHooked(registry, WideText(uApp), osOk, Attached)
               IN  /\ procs' = procs \o e.handles
                   /\ logQueue' = IF e.ok THEN Engine_log(logQueue) ELSE logQueue
                   /\ last' = [op |-> "create_process_hooked",
                               ret |-> match_bool(e.ok), engineRet |-> e.ok,
                               err |-> e.err,
                               strings |-> <<Passed(application_name, pApp, uApp),
                                             Passed(Str_cmd, pCmd, uCmd),
                                             Passed(Str_cwd, pDir, uDir)>>]
    /\ UNCHANGED registry
    /\ ProcFrame

blacklist_executable ==
    /\ ~panicked
    /\ Cardinality(registry.blacklist) < MaxRules
    /\ LET p == widen_mut(Str_tool_lc) IN
       \E u \in Deref(p, {}) :
         /\ registry' = [registry EXCEPT !.blacklist = @ \cup {WideText(u)}]
         /\ last' = [op |-> "blacklist_executable", ret |-> "Unit",
                     strings |-> <<Passed(Str_tool_lc, p, u)>>]
    /\ UNCHANGED <<procs, logQueue>>
    /\ ProcFrame

clear_executable_blacklist ==
    /\ ~panicked
    /\ registry' = [registry EXCEPT !.blacklist = {}]
    /\ last' = [op |-> "clear_executable_blacklist", ret |-> "Unit"]
    /\ UNCHANGED <<procs, logQueue>>
    /\ ProcFrame

force_load_library ==
    /\ ~panicked
    /\ Cardinality(registry.forceLoads) < MaxRules
    /\ LET pProc == widen_mut(Str_game)
           pLib == widen_mut(Str_lib)
       IN  \E uProc \in Deref(pProc, {pLib}), uLib \in Deref(pLib, {}) :
             /\ registry' = [registry EXCEPT !.forceLoads =
                               @ \cup {[proc |-> WideText(uProc), lib |-> WideText(uLib)]}]
             /\ last' = [op |-> "force_load_library", ret |-> "Unit",
                         strings |-> <<Passed(Str_game, pProc, uProc),
                                       Passed(Str_lib, pLib, uLib)>>]
    /\ UNCHANGED <<procs, logQueue>>
    /\ ProcFrame

clear_library_force_loads ==
    /\ ~panicked
    /\ registry' = [registry EXCEPT !.forceLoads = {}]
    /\ last' = [op |-> "clear_library_force_loads", ret |-> "Unit"]
    /\ UNCHANGED <<procs, logQueue>>
    /\ ProcFrame

init_logging ==
    /\ ~panicked
    /\ \E toLocal \in BOOLEAN :
         /\ logQueue' = [logQueue EXCEPT !.on = TRUE]
         /\ last' = [op |-> "init_logging", ret |-> "Unit", toLocal |-> toLocal]
    /\ UNCHANGED <<registry, procs>>
    /\ ProcFrame

\* blocking is false: "set blocking to false since true isn't implimented
\* upstream".  The engine's result is discarded (`_ = ...`).
get_log_message ==
    /\ ~panicked
    /\ LET e == Engine_getLogMessage(logQueue) IN
         /\ logQueue' = e.queue
         /\ last' = [op |-> "get_log_message", ret |-> "Unit", engineRet |-> e.ok]
    /\ UNCHANGED <<registry, procs>>
    /\ ProcFrame

--------------------------------------------------------------------------
(* Specifications.                                                         *)

\* The configuration test startAndStop builds before create_vfs.
TestParams == [NewParameters EXCEPT !.instanceName = as_bytes(Str_test)]

InitEngine ==
    /\ panicked = FALSE
    /\ sessionState = "Uninitialized"
    /\ connected = <<>>
    /\ store = EmptyStore
    /\ registry = EmptyRegistry
    /\ procs = <<>>
    /\ logQueue = [on |-> FALSE, n |-> 0]
    /\ probe = NoProbe
    /\ last = [op |-> "start", ret |-> "Unit"]

\* Session lifecycle, file links and dumps, from a fresh process.
Init ==
    /\ params = TestParams
    /\ InitEngine

Next ==
    \/ create_vfs
    \/ connect_vfs
    \/ disconnect_vfs
    \/ clear_virtual_mappings
    \/ virtually_link_file
    \/ create_vfs_dump

Spec == Init /\ [][Next]_vars

\* The state a successful create_vfs leaves a fresh process in.
InitAttached ==
    /\ params = TestParams
    /\ panicked = FALSE
    /\ sessionState = "Connected"
    /\ connected = <<TestParams.instanceName>>
    /\ store = EmptyStore
    /\ registry = EmptyRegistry
    /\ procs = <<>>
    /\ logQueue = [on |-> FALSE, n |-> 0]
    /\ probe = NoProbe
    /\ last = [op |-> "create_vfs", ret |-> "Ok", engineRet |-> TRUE,
               before |-> [connected |-> <<>>, mapped |-> FALSE],
               passed |-> <<"Created", "Connected">>]

\* Directory links that set create-targets on nested folders, and links of
\* single files, in one session.
NextTarget ==
    \/ virtually_link_directory_static(SourceInputs, DestInputs, TargetFlagInputs)
    \/ virtually_link_file
    \/ clear_virtual_mappings

SpecTarget == InitAttached /\ [][NextTarget]_vars

\* Recursive static directory links and the skip-directory list.
NextSkip ==
    \/ virtually_link_directory_static({Str_R1}, {Str_A}, RecursiveFlagInputs)
    \/ add_skip_directory
    \/ clear_skip_directories
    \/ clear_virtual_mappings

SpecSkip == InitAttached /\ [][NextSkip]_vars

\* Hooked processes, the blacklist, forced loads and the log.
NextProc ==
    \/ create_process_hooked
    \/ blacklist_executable
    \/ clear_executable_blacklist
    \/ init_logging
    \/ get_log_message
    \/ disconnect_vfs

SpecProc == InitAttached /\ [][NextProc]_vars

\* The skip-suffix list, with links of single files.
NextRegistry ==
    \/ add_skip_file_suffix
    \/ clear_skip_file_suffixes
    \/ virtually_link_file

SpecRegistry == InitAttached /\ [][NextRegistry]_vars

\* The forced-load list, with hooked processes.
NextLoads ==
    \/ force_load_library
    \/ clear_library_force_loads
    \/ create_process_hooked

SpecLoads == InitAttached /\ [][NextLoads]_vars

\* The Parameters object alone.
InitParams ==
    /\ params = NullParams
    /\ InitEngine

NextParams ==
    \/ Parameters_new
    \/ set_instance_name
    \/ set_debug_mode
    \/ set_log_level
    \/ set_crash_dumps_type
    \/ set_crash_dumps_path
    \/ set_process_delay
    \/ free_parameters

SpecParams == InitParams /\ [][NextParams]_vars

--------------------------------------------------------------------------
(* Properties.                                                             *)

LinkOps == {"virtually_link_file", "virtually_link_directory_static"}
SessionOps == {"create_vfs", "connect_vfs"}

\* What the engine read as the source and the destination of a link call.
SourceRead(call) == WideText(call.strings[1].read)
DestRead(call) == VirtualPath(WideText(call.strings[2].read))

\* C1: at most one VFS session is connected at any time; create_vfs or
\* connect_vfs issued while a session is connected detaches that session
\* first, and its result reports nothing but the engine's own outcome: Ok
\* with exactly the new session attached, or Err with none attached.
C1_SingleSession ==
    /\ Len(connected) <= 1
    /\ (last.op \in SessionOps /\ last.before.connected # <<>>) =>
         /\ last.ret = "Err" => ~last.engineRet
         /\ last.ret = "Ok" => /\ connected = <<params.instanceName>>
                               /\ sessionState = "Connected"
         /\ last.ret = "Err" => connected = <<>>

\* C1: a create_vfs or connect_vfs that found a session attached and
\* returned Ok.
C1_Witness ==
    /\ last.op \in SessionOps
    /\ last.before.connected # <<>>
    /\ last.ret = "Ok"
    /\ Len(connected) = 1

\* C2: right after a successful create_vfs the Mapping Store holds no
\* mapping, whatever it held before; connect_vfs leaves the Mapping Store as
\* it found it.
C2_ResetBeforeUse ==
    [][/\ (last'.op = "create_vfs" /\ last'.ret = "Ok") => store' = EmptyStore
       /\ last'.op = "connect_vfs" => store' = store]_vars

\* C2: a successful create_vfs on a store that held links.
C2_Witness ==
    /\ last.op = "create_vfs"
    /\ last.ret = "Ok"
    /\ last.before.mapped
    /\ store = EmptyStore

\* C3: disconnect_vfs can be called in every state and never reports an
\* error; it leaves no session attached, and a second call right after a
\* first leaves the session state and the Mapping Store as the first left
\* them.
C3_DisconnectIdempotent ==
    /\ [](ENABLED disconnect_vfs)
    /\ [][last'.op = "disconnect_vfs" =>
            /\ last'.ret = "Unit"
            /\ ~panicked'
            /\ connected' = <<>>
            /\ last.op = "disconnect_vfs" =>
                 /\ sessionState' = sessionState
                 /\ connected' = connected
                 /\ store' = store]_vars

\* C3: a second disconnect_vfs right after the one that detached a session.
C3_Witness ==
    /\ last.op = "disconnect_vfs"
    /\ last.again
    /\ last.ret = "Unit"
    /\ sessionState = "Disconnected"

\* C4: whenever the engine call behind a wrapper returned false, the
\* wrapper's result is a failure.
C4_FailureSurfaced ==
    ("engineRet" \in DOMAIN last /\ ~last.engineRet) => last.ret = "Err"

\* C5: no operation panics, whatever its input.
C5_NoPanic == ~panicked /\ last.ret # "Panic"

\* C6: every string argument reaches the engine as the null-terminated
\* UTF-16 encoding of that argument, read from a buffer that is still
\* allocated.
C6_WideBufferLive ==
    "strings" \in DOMAIN last =>
        \A i \in 1..Len(last.strings) :
            /\ last.strings[i].ptr.allocated
            /\ last.strings[i].read = encode_utf16(last.strings[i].arg) \o <<0>>

Str_ABC == <<47, 65, 47, 66, 47, 67>>         \* "/A/B/C"
ResolvePaths == {VirtualPath(Str_A), VirtualPath(Str_AB), VirtualPath(Str_ABC)}

\* The targets of the create-targets on the longest prefix of path.
DeepestTargets(st, path) ==
    LET above == {c \in st.createTargets : IsPrefix(c.at, path)}
    IN  {c.target : c \in {x \in above : \A y \in above : Len(y.at) <= Len(x.at)}}

\* C8: a folder has at most one create-target; a successful link with
\* LINKFLAG_CREATETARGET makes its source the folder's only create-target;
\* resolving a path uses the create-target of its deepest ancestor that has
\* one.
C8_InnermostCreateTarget ==
    /\ \A c1, c2 \in store.createTargets : c1.at = c2.at => c1 = c2
    /\ (/\ last.op = "virtually_link_directory_static"
        /\ last.ret = "Ok"
        /\ HasFlag(last.flags, LINKFLAG_CREATETARGET))
       => CreateTargetsAt(store, DestRead(last)) =
              {[at |-> DestRead(last), target |-> SourceRead(last)]}
    /\ \A p \in ResolvePaths :
         LET r == Engine_resolve(store, p)
             d == DeepestTargets(store, p)
         IN  IF d = {} THEN ~r.hasCreateTarget
             ELSE r.hasCreateTarget /\ d = {r.createTarget}

\* C8: create-targets at /A and /A/B with different targets; /A/B/C
\* resolves to the one of /A/B.
C8_Witness ==
    \E a \in CreateTargetsAt(store, VirtualPath(Str_A)),
       b \in CreateTargetsAt(store, VirtualPath(Str_AB)) :
        /\ a.target # b.target
        /\ Engine_resolve(store, VirtualPath(Str_ABC)).hasCreateTarget
        /\ Engine_resolve(store, VirtualPath(Str_ABC)).createTarget = b.target

\* The components of a real path ('\' separates them).
RECURSIVE SplitReal(_, _, _)
SplitReal(text, cur, acc) ==
    IF text = <<>>
    THEN IF cur = <<>> THEN acc ELSE Append(acc, cur)
    ELSE IF Head(text) = 92
         THEN SplitReal(Tail(text), <<>>, IF cur = <<>> THEN acc ELSE Append(acc, cur))
         ELSE SplitReal(Tail(text), Append(cur, Head(text)), acc)

\* Redirect r leads to a skipped directory below source, or into one.
BelowSkipped(r, source, skip) ==
    LET comps == SplitReal(r.target, <<>>, <<>>)
        from == Len(SplitReal(source, <<>>, <<>>)) + 1
        to == IF r.dir THEN Len(comps) ELSE Len(comps) - 1
    IN  \E i \in from..to : comps[i] \in skip

\* The tree below real directory d holds a directory named in skip.
RECURSIVE MeetsSkipped(_, _)
MeetsSkipped(d, skip) ==
    \E e \in DirEntries(d) :
        e.dir /\ (e.name \in skip \/ MeetsSkipped(RealChild(d, e.name), skip))

C11_FailedSessionUninitialized ==
    (last.op \in SessionOps /\ ~last.engineRet) =>
        /\ last.ret = "Err"
        /\ sessionState = "Uninitialized"
        /\ connected = <<>>

\* C11: a create_vfs or connect_vfs that found a session attached and
\* failed at the engine boundary.
C11_Witness ==
    /\ last.op \in SessionOps
    /\ last.before.connected # <<>>
    /\ ~last.engineRet
    /\ last.ret = "Err"
    /\ sessionState = "Uninitialized"

==========================================================================
